---- MODULE Spec2Model ----
(***************************************************************************)
(* InboxMiner: the Microsoft Graph connector (EmailConnector), the         *)
(* ingestion pipeline (EmailExtractor.extract_emails) and the store it     *)
(* writes (raw_emails, email_processing_logs).                             *)
(*                                                                         *)
(* Text is a sequence of characters; a character is a number: 1 and 2 are  *)
(* the lower-case letters, 3 and 4 the same letters in upper case.         *)
(* A point in time is a number of ticks; a day has DayTicks ticks.         *)
(***************************************************************************)
EXTENDS Integers, Sequences, FiniteSets, TLC

\* ------------------------------------------------------------------ bounds
NumHandles == 3
MaxRuns == 2
MaxDbFaults == 1
PageSize == 2
DayTicks == 2
MaxCalls == 1
MaxUnclosed == 2

\* ------------------------------------------------------- values of the code
\* A Python value that may be None.
PyNone == [k |-> "None"]
Str(s) == [k |-> "str", v |-> s]
Dt(t) == [k |-> "datetime", v |-> t]

\* A field of a JSON payload: the key is missing, null, or holds a value.
Absent == [k |-> "absent"]
Null == [k |-> "null"]
Val(x) == [k |-> "val", v |-> x]

\* bool(value) of an Optional[str]: None and "" are falsy.
Truthy(x) == x.k = "str" /\ x.v # <<>>

lower(s) == [i \in 1..Len(s) |-> IF s[i] > 2 THEN s[i] - 2 ELSE s[i]]

\* Python's `sub in s` for two strings.
Contains(sub, s) ==
    \E i \in 0..(Len(s) - Len(sub)) : SubSeq(s, i + 1, i + Len(sub)) = sub

\* The outcome of a call: a value, or an exception.
Ok(x) == [k |-> "ok", v |-> x]
Raise(e) == [k |-> "raise", e |-> e]

\* ----------------------------------------------------- EmailFilter, dates
EmailFilter(sender, subject, date_filter) ==
    [sender |-> sender, subject |-> subject, date_filter |-> date_filter]

\* A date (tod = 0) or datetime value: a day and the ticks into that day.
Date(day, tod) == [day |-> day, tod |-> tod]

\* The date_filter dict.
DateEq(d) == [k |-> "dict", operator |-> "=", date |-> d]
DateAfter(d) == [k |-> "dict", operator |-> ">", date |-> d]
DateRange(s, e) == [k |-> "dict", operator |-> "range", start_date |-> s, end_date |-> e]
DateOther(d) == [k |-> "dict", operator |-> "<", date |-> d]

_normalize_date(value) == value.day

\* datetime.combine(d, datetime.min.time()).replace(tzinfo=utc)
Midnight(day) == day * DayTicks

\* _build_date_range reading every operator it does not know as "=".
_build_date_range_OtherAsEquals(email_filter) ==
    LET date_filter == email_filter.date_filter IN
    IF date_filter = PyNone THEN <<PyNone, PyNone>>
    ELSE IF date_filter.operator = ">"
    THEN <<Dt(Midnight(_normalize_date(date_filter.date))), PyNone>>
    ELSE IF date_filter.operator = "range"
    THEN <<Dt(Midnight(_normalize_date(date_filter.start_date))),
           Dt(Midnight(_normalize_date(date_filter.end_date)) + DayTicks)>>
    ELSE LET start == Midnight(_normalize_date(date_filter.date))
         IN  <<Dt(start), Dt(start + DayTicks)>>

\* _build_date_range with the end of a range at the start of its last day.
_build_date_range_ExclusiveEnd(email_filter) ==
    LET date_filter == email_filter.date_filter IN
    IF date_filter = PyNone THEN <<PyNone, PyNone>>
    ELSE IF date_filter.operator = "="
    THEN LET start == Midnight(_normalize_date(date_filter.date))
         IN  <<Dt(start), Dt(start + DayTicks)>>
    ELSE IF date_filter.operator = ">"
    THEN <<Dt(Midnight(_normalize_date(date_filter.date))), PyNone>>
    ELSE IF date_filter.operator = "range"
    THEN <<Dt(Midnight(_normalize_date(date_filter.start_date))),
           Dt(Midnight(_normalize_date(date_filter.end_date)))>>
    ELSE <<PyNone, PyNone>>

_build_date_range(email_filter) ==
    LET date_filter == email_filter.date_filter IN
    IF date_filter = PyNone THEN <<PyNone, PyNone>>
    ELSE IF date_filter.operator = "="
    THEN LET start == Midnight(_normalize_date(date_filter.date))
         IN  <<Dt(start), Dt(start + DayTicks)>>
    ELSE IF date_filter.operator = ">"
    THEN <<Dt(Midnight(_normalize_date(date_filter.date))), PyNone>>
    ELSE IF date_filter.operator = "range"
    THEN <<Dt(Midnight(_normalize_date(date_filter.start_date))),
           Dt(Midnight(_normalize_date(date_filter.end_date)) + DayTicks)>>
    ELSE <<PyNone, PyNone>>

\* dt.replace(microsecond=0).isoformat().replace("+00:00", "Z"): the text
\* "<date>T<time of day>Z" of a point in time (a tick has no microseconds).
_iso_utc(dt) == [date |-> dt.v \div DayTicks, time |-> dt.v % DayTicks, zone |-> "Z"]

\* The point in time Graph reads from such a text.
GraphTime(text) == text.date * DayTicks + text.time

\* _build_graph_filter without the test for an empty list of criteria.
_build_graph_filter_NeverNone(email_filter) ==
    LET range == _build_date_range(email_filter)
        ge == IF range[1] # PyNone
              THEN <<[op |-> "ge", t |-> _iso_utc(range[1])]>> ELSE <<>>
        lt == IF range[2] # PyNone
              THEN <<[op |-> "lt", t |-> _iso_utc(range[2])]>> ELSE <<>>
    IN  [k |-> "filter", v |-> ge \o lt]

\* The OData filter: the list of criteria joined by " and ", or None.
_build_graph_filter(email_filter) ==
    LET range == _build_date_range(email_filter)
        ge == IF range[1] # PyNone
              THEN <<[op |-> "ge", t |-> _iso_utc(range[1])]>> ELSE <<>>
        lt == IF range[2] # PyNone
              THEN <<[op |-> "lt", t |-> _iso_utc(range[2])]>> ELSE <<>>
        criteria_parts == ge \o lt
    IN  IF criteria_parts = <<>> THEN PyNone ELSE [k |-> "filter", v |-> criteria_parts]

\* "T", "F", or "raise" when message["from"] is null (None has no .get).
_matches_text_filters(message, email_filter) ==
    LET senderRes ==
            IF ~Truthy(email_filter.sender) THEN "T"
            ELSE IF message.from = Null THEN "raise"
            ELSE LET sender == lower(IF message.from = Absent THEN <<>> ELSE message.from.v)
                 IN  IF Contains(lower(email_filter.sender.v), sender) THEN "T" ELSE "F"
        subjectRes ==
            IF ~Truthy(email_filter.subject) THEN "T"
            ELSE LET subject == lower(IF message.subject.k = "val"
                                      THEN message.subject.v ELSE <<>>)
                 IN  IF Contains(lower(email_filter.subject.v), subject) THEN "T" ELSE "F"
    IN  IF senderRes # "T" THEN senderRes ELSE subjectRes

\* ------------------------------------------------------------ the mailbox
\* What the Graph backend holds for one message (the keys the code reads).
Message(internetMessageId, from, subject, receivedDateTime) ==
    [internetMessageId |-> internetMessageId, from |-> from,
     subject |-> subject, receivedDateTime |-> receivedDateTime]

\* The messages the mailboxes of the model are made of: 1 to 3 are well formed,
\* 4 repeats the internetMessageId of 2 and has a null subject, 5 is a second
\* copy of 1, 6 has a null internetMessageId and neither sender nor subject.
MessagePool ==
    << Message(Val(1), Val(<<3, 1>>), Val(<<1, 2>>), Val(Midnight(1))),
       Message(Val(2), Val(<<1, 2>>), Val(<<2>>), Val(Midnight(1) + 1)),
       Message(Absent, Val(<<2>>), Val(<<4, 1>>), Val(Midnight(2))),
       Message(Val(2), Val(<<1>>), Null, Val(Midnight(2))),
       Message(Val(1), Val(<<2, 2>>), Val(<<1>>), Val(Midnight(2) + 1)),
       Message(Null, Absent, Absent, Val(Midnight(2) + 1)) >>

Handles == 1..NumHandles

\* A mailbox: NumHandles messages of the pool in a row, from any of them on.
Mailbox(first) ==
    [h \in Handles |-> MessagePool[((first + h - 2) % Len(MessagePool)) + 1]]

Mailboxes == {Mailbox(first) : first \in 1..Len(MessagePool)}

\* GET /me/mailFolders/inbox/messages?$filter=...: the handles of the messages
\* whose receivedDateTime satisfies every criterion, in the backend's order.
ServerMatches(message, graph_filter) ==
    graph_filter = PyNone
    \/ \A i \in 1..Len(graph_filter.v) :
          LET c == graph_filter.v[i] IN
          /\ message.receivedDateTime.k = "val"
          /\ IF c.op = "ge" THEN message.receivedDateTime.v >= GraphTime(c.t)
                            ELSE message.receivedDateTime.v < GraphTime(c.t)

RECURSIVE ServerSelect(_, _, _)
ServerSelect(box, graph_filter, h) ==
    IF h > Len(box) THEN <<>>
    ELSE (IF ServerMatches(box[h], graph_filter) THEN <<h>> ELSE <<>>)
         \o ServerSelect(box, graph_filter, h + 1)

\* The pages of a listing: PageSize handles each; the last one carries no
\* @odata.nextLink. An empty listing is one empty page.
RECURSIVE Pages(_)
Pages(listing) ==
    IF Len(listing) <= PageSize THEN <<listing>>
    ELSE <<SubSeq(listing, 1, PageSize)>>
         \o Pages(SubSeq(listing, PageSize + 1, Len(listing)))

\* ------------------------------------------------------------- connector
NoSession == "None"
Session == "session"

\* What the connector does on the network and with sessions: the token
\* acquisition through msal, requests.Session(), a GET of the session, the
\* close() of the session.
TokenRequest == [op |-> "token"]
NewSession == [op |-> "Session"]
Get(url, params) == [op |-> "GET", url |-> url, params |-> params]
CloseSession == [op |-> "close"]

\* What connect() meets: the configured account (EMAIL_USER; None or "" when
\* it is unset),
\* how _acquire_microsoft_access_token ends ("no_client_id": MS_CLIENT_ID or
\* the scopes are unset, "failed": no token comes back), and whether the
\* request for the inbox folder succeeds.
ConnectEnvs ==
    [user : {PyNone, Str(<<>>), Str(<<1>>)}, token : {"ok", "no_client_id", "failed"},
     health : BOOLEAN]

\* connect acquiring the token before it looks at EMAIL_USER.
connect_TokenFirst(conn, env) ==
    IF env.token = "no_client_id"
    THEN [connection |-> conn, res |-> Raise("ValueError"), net |-> <<>>]
    ELSE IF env.token = "failed"
    THEN [connection |-> conn, res |-> Raise("RuntimeError"), net |-> <<TokenRequest>>]
    ELSE IF ~Truthy(env.user)
    THEN [connection |-> conn, res |-> Raise("ValueError"), net |-> <<TokenRequest>>]
    ELSE IF ~env.health
    THEN [connection |-> conn, res |-> Raise("HTTPError"),
          net |-> <<TokenRequest, NewSession, Get("inbox", <<>>)>>]
    ELSE [connection |-> Session, res |-> Ok(PyNone),
          net |-> <<TokenRequest, NewSession, Get("inbox", <<>>)>>]

\* connect assigning self.connection before the inbox request.
connect_PublishEarly(conn, env) ==
    IF ~Truthy(env.user)
    THEN [connection |-> conn, res |-> Raise("ValueError"), net |-> <<>>]
    ELSE IF env.token = "no_client_id"
    THEN [connection |-> conn, res |-> Raise("ValueError"), net |-> <<>>]
    ELSE IF env.token = "failed"
    THEN [connection |-> conn, res |-> Raise("RuntimeError"), net |-> <<TokenRequest>>]
    ELSE [connection |-> Session,
          res |-> IF env.health THEN Ok(PyNone) ELSE Raise("HTTPError"),
          net |-> <<TokenRequest, NewSession, Get("inbox", <<>>)>>]

\* connect(): what it leaves in self.connection, what it raises, and what it
\* did on the network before.
connect(conn, env) ==
    IF ~Truthy(env.user)
    THEN [connection |-> conn, res |-> Raise("ValueError"), net |-> <<>>]
    ELSE IF env.token = "no_client_id"
    THEN [connection |-> conn, res |-> Raise("ValueError"), net |-> <<>>]
    ELSE IF env.token = "failed"
    THEN [connection |-> conn, res |-> Raise("RuntimeError"), net |-> <<TokenRequest>>]
    ELSE IF ~env.health
    THEN [connection |-> conn, res |-> Raise("HTTPError"),
          net |-> <<TokenRequest, NewSession, Get("inbox", <<>>)>>]
    ELSE [connection |-> Session, res |-> Ok(PyNone),
          net |-> <<TokenRequest, NewSession, Get("inbox", <<>>)>>]

\* disconnect without the finally clause: a failing close() keeps the field.
disconnect_NoFinally(conn, close_ok) ==
    [connection |-> IF conn # NoSession /\ close_ok THEN NoSession ELSE conn,
     res |-> Ok(PyNone),
     net |-> IF conn # NoSession THEN <<CloseSession>> ELSE <<>>]

\* disconnect without the except clause: a failing close() is raised.
disconnect_NoExcept(conn, close_ok) ==
    [connection |-> NoSession,
     res |-> IF conn # NoSession /\ ~close_ok THEN Raise("ConnectionError")
             ELSE Ok(PyNone),
     net |-> IF conn # NoSession THEN <<CloseSession>> ELSE <<>>]

\* disconnect(): nothing to do without a session; otherwise close(), whose
\* failure is logged and swallowed, and the finally clause clears the field.
disconnect(conn, close_ok) ==
    [connection |-> IF conn # NoSession THEN NoSession ELSE conn,
     res |-> Ok(PyNone),
     net |-> IF conn # NoSession THEN <<CloseSession>> ELSE <<>>]

\* The sessions nobody has called close() on, after a call that did net.
RECURSIVE UnclosedAfter(_, _)
UnclosedAfter(n, net) ==
    IF net = <<>> THEN n
    ELSE UnclosedAfter(IF Head(net) = NewSession THEN n + 1
                       ELSE IF Head(net) = CloseSession THEN n - 1
                       ELSE n,
                       Tail(net))

\* The for loop over one page's messages: the ids collected, or the exception.
RECURSIVE CollectPage(_, _, _, _)
CollectPage(box, page, email_filter, i) ==
    IF i > Len(page) THEN Ok(<<>>)
    ELSE LET m == _matches_text_filters(box[page[i]], email_filter)
             rest == CollectPage(box, page, email_filter, i + 1)
         IN  IF m = "raise" THEN Raise("AttributeError")
             ELSE IF rest.k = "raise" THEN rest
             ELSE Ok((IF m = "T" THEN <<page[i]>> ELSE <<>>) \o rest.v)

\* The while loop over the pages; the request of page failing_page (0: none)
\* answers with an error status.
RECURSIVE SearchPages(_, _, _, _, _)
SearchPages(box, pages, email_filter, failing_page, n) ==
    IF n > Len(pages) THEN Ok(<<>>)
    ELSE IF n = failing_page THEN Raise("HTTPError")
    ELSE LET here == CollectPage(box, pages[n], email_filter, 1) IN
         IF here.k = "raise" THEN here
         ELSE LET rest == SearchPages(box, pages, email_filter, failing_page, n + 1)
              IN  IF rest.k = "raise" THEN rest ELSE Ok(here.v \o rest.v)

\* What the paging loop collects from the mailbox for a filter.
Listing(box, email_filter, failing_page) ==
    SearchPages(box, Pages(ServerSelect(box, _build_graph_filter(email_filter), 1)),
                email_filter, failing_page, 1)

\* The query parameters of the first request of a search: $top, $select and
\* $orderby always, $filter only with a date criterion. The requests of the
\* continuation links carry no parameters (params = {}).
SearchParams(graph_filter) ==
    [top |-> Val(PageSize), select |-> Val("id,subject,from,receivedDateTime"),
     orderby |-> Val("receivedDateTime desc"),
     filter |-> IF graph_filter = PyNone THEN Absent ELSE Val(graph_filter.v)]
NoParams == [top |-> Absent, select |-> Absent, orderby |-> Absent, filter |-> Absent]

\* The requests of the while loop: one per page, up to the page whose request
\* fails or whose messages raise.
RECURSIVE PageRequests(_, _, _, _, _)
PageRequests(box, pages, email_filter, failing_page, n) ==
    IF n > Len(pages) THEN <<>>
    ELSE << Get(IF n = 1 THEN <<"messages">> ELSE <<"nextLink", n>>,
                IF n = 1 THEN SearchParams(_build_graph_filter(email_filter))
                ELSE NoParams) >>
         \o (IF n = failing_page
                \/ CollectPage(box, pages[n], email_filter, 1).k = "raise"
             THEN <<>>
             ELSE PageRequests(box, pages, email_filter, failing_page, n + 1))

\* What search_emails sends to the backend.
SearchRequests(conn, box, email_filter, failing_page) ==
    IF conn = NoSession THEN <<>>
    ELSE PageRequests(box, Pages(ServerSelect(box, _build_graph_filter(email_filter), 1)),
                      email_filter, failing_page, 1)

\* search_emails treating an empty listing as a failure.
search_emails_RaiseOnEmpty(conn, box, email_filter, failing_page) ==
    IF conn = NoSession THEN Raise("ConnectionError")
    ELSE IF Listing(box, email_filter, failing_page) = Ok(<<>>) THEN Raise("LookupError")
    ELSE Listing(box, email_filter, failing_page)

\* search_emails without the test of self.connection.
search_emails_NoCheck(conn, box, email_filter, failing_page) ==
    Listing(box, email_filter, failing_page)

search_emails(conn, box, email_filter, failing_page) ==
    IF conn = NoSession THEN Raise("ConnectionError")
    ELSE Listing(box, email_filter, failing_page)

\* _parse_date: a missing or unreadable value becomes datetime.utcnow().
_parse_date(date_str, now) ==
    IF date_str.k = "val" THEN Dt(date_str.v) ELSE Dt(now)

\* The id of a message without internetMessageId: "generated-" + email_id.
Generated(email_id) == Str(<<"generated-", email_id>>)
MessageIdOf(n) == Str(<<"mid", n>>)

\* fetch_email with the message_id always built from the handle.
fetch_email_GeneratedId(conn, box, email_id, http_ok, now) ==
    IF conn = NoSession THEN Raise("ConnectionError")
    ELSE IF ~http_ok THEN Raise("HTTPError")
    ELSE LET message == box[email_id] IN
         IF message.from = Null THEN Raise("AttributeError")
         ELSE Ok([message_id |-> Generated(email_id),
                  sender |-> IF message.from = Absent THEN Str(<<>>)
                             ELSE Str(message.from.v),
                  subject |-> IF message.subject = Absent THEN Str(<<>>)
                              ELSE IF message.subject = Null THEN PyNone
                              ELSE Str(message.subject.v),
                  received_date |-> _parse_date(message.receivedDateTime, now)])

\* dict.get(key, default): the default only when the key is missing.
fetch_email(conn, box, email_id, http_ok, now) ==
    IF conn = NoSession THEN Raise("ConnectionError")
    ELSE IF ~http_ok THEN Raise("HTTPError")
    ELSE LET message == box[email_id] IN
         IF message.from = Null THEN Raise("AttributeError")
         ELSE Ok([message_id |->
                     IF message.internetMessageId = Absent THEN Generated(email_id)
                     ELSE IF message.internetMessageId = Null THEN PyNone
                     ELSE MessageIdOf(message.internetMessageId.v),
                  sender |-> IF message.from = Absent THEN Str(<<>>)
                             ELSE Str(message.from.v),
                  subject |-> IF message.subject = Absent THEN Str(<<>>)
                              ELSE IF message.subject = Null THEN PyNone
                              ELSE Str(message.subject.v),
                  received_date |-> _parse_date(message.receivedDateTime, now)])

\* What fetch_email sends to the backend.
FetchRequests(conn, email_id) ==
    IF conn = NoSession THEN <<>>
    ELSE << Get(<<"messages", email_id>>,
                [NoParams EXCEPT !.select = Val("id,internetMessageId,from,subject,receivedDateTime,body,bodyPreview,internetMessageHeaders")]) >>

\* ------------------------------------------------------------- the store
\* A row of raw_emails; processed defaults to False, id is autoincrement.
RawEmail(id, email_data, processor_type) ==
    [id |-> id, message_id |-> email_data.message_id, sender |-> email_data.sender,
     subject |-> email_data.subject, received_date |-> email_data.received_date,
     processed |-> FALSE, processor_type |-> processor_type]

\* session.query(RawEmail).filter_by(message_id=...).first(): the index of the
\* first committed row with that message_id, 0 for None. A None message_id
\* compares as IS NULL.
QueryFirst(table, message_id) ==
    LET hits == {i \in 1..Len(table) : table[i].message_id = message_id}
    IN  IF hits = {} THEN 0 ELSE CHOOSE i \in hits : \A j \in hits : i <= j

\* nullable=False on message_id, sender, subject, received_date.
NotNullOk(row) ==
    /\ row.message_id # PyNone
    /\ row.sender # PyNone
    /\ row.subject # PyNone
    /\ row.received_date # PyNone

\* raw_emails without the unique index.
UniqueOk_Missing(table, row) == TRUE

\* unique=True on message_id.
UniqueOk(table, row) ==
    \A i \in 1..Len(table) : table[i].message_id # row.message_id

\* session.flush(): the INSERT, which the constraints accept or reject.
Flush(table, row) ==
    IF NotNullOk(row) /\ UniqueOk(table, row) THEN "ok" ELSE "IntegrityError"

\* The count going up after every store call.
CountAfterStore_Always(extracted_count, stored) == extracted_count + 1

\* extracted_count after the store call returned `stored`.
CountAfterStore(extracted_count, stored) ==
    IF stored THEN extracted_count + 1 ELSE extracted_count

\* The session's commit at the end of `with get_session()`: the pending
\* insert, if any, becomes a committed row.
Commit(table, pending) ==
    IF pending = PyNone THEN table ELSE Append(table, pending)

\* _store_email without the `except IntegrityError` clause.
OnIntegrityError_Propagated == Raise("IntegrityError")

\* `except IntegrityError`: the call returns False.
OnIntegrityError == Ok(FALSE)

\* _store_email overwriting the row it finds instead of leaving it.
_store_email_Upsert(table, email_data, processor_type, db_ok) ==
    IF ~db_ok THEN [table |-> table, res |-> Raise("OperationalError")]
    ELSE LET existing == QueryFirst(table, email_data.message_id) IN
         IF existing # 0
         THEN [table |-> [table EXCEPT ![existing] =
                              RawEmail(table[existing].id, email_data, processor_type)],
               res |-> Ok(FALSE)]
         ELSE LET raw_email == RawEmail(Len(table) + 1, email_data, processor_type) IN
              IF Flush(table, raw_email) = "ok"
              THEN [table |-> Commit(table, raw_email), res |-> Ok(TRUE)]
              ELSE [table |-> table, res |-> OnIntegrityError]

\* _store_email taking over the row it finds for the profile of the run.
_store_email_Retag(table, email_data, processor_type, db_ok) ==
    IF ~db_ok THEN [table |-> table, res |-> Raise("OperationalError")]
    ELSE LET existing == QueryFirst(table, email_data.message_id) IN
         IF existing # 0
         THEN [table |-> [table EXCEPT ![existing].processor_type = processor_type],
               res |-> Ok(FALSE)]
         ELSE LET raw_email == RawEmail(Len(table) + 1, email_data, processor_type) IN
              IF Flush(table, raw_email) = "ok"
              THEN [table |-> Commit(table, raw_email), res |-> Ok(TRUE)]
              ELSE [table |-> table, res |-> OnIntegrityError]

\* _store_email as one transaction: the table afterwards and what the call
\* returns ("True", "False") or that it raises. db_ok: the database answers;
\* otherwise the session raises an error other than IntegrityError.
_store_email(table, email_data, processor_type, db_ok) ==
    IF ~db_ok THEN [table |-> table, res |-> Raise("OperationalError")]
    ELSE IF QueryFirst(table, email_data.message_id) # 0
    THEN [table |-> Commit(table, PyNone), res |-> Ok(FALSE)]
    ELSE LET raw_email == RawEmail(Len(table) + 1, email_data, processor_type) IN
         IF Flush(table, raw_email) = "ok"
         THEN [table |-> Commit(table, raw_email), res |-> Ok(TRUE)]
         ELSE [table |-> table, res |-> OnIntegrityError]

\* An entry of email_processing_logs.
EmailProcessingLog(action, processor_type, status, message, error_details) ==
    [action |-> action, processor_type |-> processor_type, status |-> status,
     message |-> message, error_details |-> error_details]

\* _log_processing_activity without its `except Exception` clause.
_log_processing_activity_Raising(entries, log_entry, db_ok) ==
    IF db_ok THEN [entries |-> Append(entries, log_entry), res |-> Ok(PyNone)]
    ELSE [entries |-> entries, res |-> Raise("OperationalError")]

\* _log_processing_activity: the entry is appended, or the failure is
\* logged and swallowed; the call returns None either way.
_log_processing_activity(entries, log_entry, db_ok) ==
    [entries |-> IF db_ok THEN Append(entries, log_entry) ELSE entries,
     res |-> Ok(PyNone)]

\* ----------------------------------------------------------------- state
VARIABLES
    inbox,            \* the mailbox behind the Graph API: handle -> message
    rows,             \* raw_emails, the committed rows in insertion order
    logs,             \* email_processing_logs, in insertion order
    connection,       \* self.connector.connection
    pc,               \* where extract_emails stands
    args,             \* the arguments of the running call
    email_ids,        \* the handles search_emails returned
    i,                \* position of the for loop in email_ids
    extracted_count,
    error_count,
    email_data,       \* what fetch_email returned for the current handle
    exc,              \* the exception travelling up, or PyNone
    ret,              \* a value returned from inside the with block, or PyNone
    result,           \* what the last call gave its caller: Ok(n) or Raise(e)
    runs,             \* calls of extract_emails so far
    db_faults,        \* database calls that failed so far
    fault_budget,     \* how many database calls may fail
    start,            \* the store and the log when the running call began
    calls,            \* what the running call has called so far, and the outcome
    prev,             \* the call before the running one
    txn,              \* concurrent _store_email calls, one per pipeline instance
    done,             \* the _store_email calls those instances have finished
    last,             \* the last call a client made on the connector itself
    unclosed          \* sessions connect has created and nobody has called close() on

store == <<inbox, rows, logs, connection>>
locals == <<pc, args, email_ids, i, extracted_count, error_count, email_data,
            exc, ret, result>>
history == <<runs, db_faults, fault_budget, start, calls, prev>>
stepped == <<txn, done>>
vars == <<store, locals, history, stepped, last, unclosed>>

ProcessorTypes == {"bancolombia", "trading"}

\* The filters the runs are called with: none, a sender, a subject with a
\* date, a date no message has.
RunFilters ==
    { EmailFilter(PyNone, PyNone, PyNone),
      EmailFilter(Str(<<4>>), PyNone, PyNone),
      EmailFilter(PyNone, Str(<<1>>), DateAfter(Date(2, 0))),
      EmailFilter(PyNone, PyNone, DateEq(Date(3, 1))) }

\* The store before the first run: empty, or holding message 1 as an earlier
\* run of another profile stored it and a downstream processor marked it.
InitialStores ==
    { <<>>,
      << [id |-> 1, message_id |-> MessageIdOf(1), sender |-> Str(<<3, 1>>),
          subject |-> Str(<<1, 2>>), received_date |-> Dt(Midnight(1)),
          processed |-> TRUE, processor_type |-> "trading"] >> }

\* datetime.utcnow() during the runs.
Now == Midnight(NumHandles)

NoArgs == [sender |-> PyNone, subject |-> PyNone, date_filter |-> PyNone,
           processor_type |-> PyNone]

Callers == {1, 2}
IdleTxn == [pc |-> "idle", n |-> 0, email_data |-> PyNone,
            processor_type |-> PyNone, pending |-> PyNone, saw |-> {}]

InitWith(budget, boxes) ==
    /\ inbox \in boxes
    /\ rows \in InitialStores
    /\ logs = <<>>
    /\ connection = NoSession
    /\ pc = "idle"
    /\ args = NoArgs
    /\ email_ids = <<>>
    /\ i = 0
    /\ extracted_count = 0
    /\ error_count = 0
    /\ email_data = PyNone
    /\ exc = PyNone
    /\ ret = PyNone
    /\ result = PyNone
    /\ runs = 0
    /\ db_faults = 0
    /\ fault_budget = budget
    /\ start = [rows |-> rows, logs |-> logs]
    /\ calls = <<>>
    /\ prev = PyNone
    /\ txn = [p \in Callers |-> IdleTxn]
    /\ done = <<>>
    /\ last = PyNone
    /\ unclosed = 0

\* The database is available.
Init == InitWith(0, Mailboxes)

\* A database call answers, or fails while the budget lasts.
DbAnswers(db_ok) == db_ok \/ db_faults < fault_budget
DbFaultsAfter(db_ok) == IF db_ok THEN db_faults ELSE db_faults + 1

Called(op, arg, out) == Append(calls, [op |-> op, arg |-> arg, out |-> out])
Outcome(res) == IF res.k = "raise" THEN res.e ELSE "ok"

\* ------------------------------------------------- extract_emails, by step
\* A caller invokes extract_emails(sender, subject, date_filter, processor_type).
Start ==
    /\ pc = "idle"
    /\ runs < MaxRuns
    /\ \E f \in RunFilters, processor_type \in ProcessorTypes :
           args' = [sender |-> f.sender, subject |-> f.subject,
                    date_filter |-> f.date_filter, processor_type |-> processor_type]
    /\ pc' = "enter"
    /\ email_ids' = <<>>
    /\ i' = 0
    /\ extracted_count' = 0
    /\ error_count' = 0
    /\ email_data' = PyNone
    /\ exc' = PyNone
    /\ ret' = PyNone
    /\ result' = PyNone
    /\ runs' = runs + 1
    /\ start' = [rows |-> rows, logs |-> logs]
    /\ calls' = <<>>
    /\ UNCHANGED <<store, db_faults, fault_budget, prev, stepped, last, unclosed>>

\* `with self.connector as conn`: __enter__ calls connect(); when it raises,
\* __exit__ does not run and the batch handler takes over.
Enter ==
    /\ pc = "enter"
    /\ \E env \in ConnectEnvs :
           LET c == connect(connection, env) IN
           /\ connection' = c.connection
           /\ unclosed' = UnclosedAfter(unclosed, c.net)
           /\ calls' = Called("connect", 0, Outcome(c.res))
           /\ IF c.res.k = "raise"
              THEN pc' = "except" /\ exc' = Str(c.res.e)
              ELSE pc' = "search" /\ exc' = exc
    /\ UNCHANGED <<inbox, rows, logs, args, email_ids, i, extracted_count,
                   error_count, email_data, ret, result, runs, db_faults,
                   fault_budget, start, prev, stepped, last>>

\* EmailFilter(sender=sender, subject=subject, date_filter=date_filter).
TheFilter == EmailFilter(args.sender, args.subject, args.date_filter)

\* conn.search_emails(email_filter), then the test for an empty result.
Search ==
    /\ pc = "search"
    /\ \E failing_page \in 0..1 :
           LET r == search_emails(connection, inbox, TheFilter, failing_page) IN
           /\ calls' = Called("search", failing_page, Outcome(r))
           /\ IF r.k = "raise"
              THEN /\ pc' = "exit"
                   /\ exc' = Str(r.e)
                   /\ UNCHANGED <<email_ids, i, ret>>
              ELSE /\ email_ids' = r.v
                   /\ exc' = exc
                   /\ IF r.v = <<>>
                      THEN pc' = "exit" /\ ret' = Ok(0) /\ i' = i
                      ELSE pc' = "fetch" /\ ret' = ret /\ i' = 1
    /\ UNCHANGED <<store, args, extracted_count, error_count, email_data,
                   result, runs, db_faults, fault_budget, start, prev, stepped, last, unclosed>>

\* The for loop fetching the handle of a failed fetch once more.
Advance_Retry ==
    IF /\ calls[Len(calls)].op = "fetch"
       /\ Len(calls) < 2 \/ calls[Len(calls) - 1].op # "log"
    THEN pc' = "fetch" /\ i' = i
    ELSE IF i < Len(email_ids) THEN pc' = "fetch" /\ i' = i + 1
    ELSE pc' = "exit" /\ i' = i

\* The for loop moves to the next handle, or leaves the with block.
Advance ==
    IF i < Len(email_ids) THEN pc' = "fetch" /\ i' = i + 1
    ELSE pc' = "exit" /\ i' = i

\* conn.fetch_email(email_id).
Fetch ==
    /\ pc = "fetch"
    /\ \E http_ok \in BOOLEAN :
           LET r == fetch_email(connection, inbox, email_ids[i], http_ok, Now) IN
           /\ calls' = Called("fetch", email_ids[i], Outcome(r))
           /\ IF r.k = "raise"
              THEN pc' = "handler" /\ exc' = Str(r.e) /\ email_data' = email_data
              ELSE pc' = "store" /\ exc' = exc /\ email_data' = r.v
    /\ UNCHANGED <<store, args, email_ids, i, extracted_count, error_count,
                   ret, result, runs, db_faults, fault_budget, start, prev,
                   stepped, last, unclosed>>

\* self._store_email(email_data, processor_type) and the count.
Store ==
    /\ pc = "store"
    /\ \E db_ok \in BOOLEAN :
           /\ DbAnswers(db_ok)
           /\ db_faults' = DbFaultsAfter(db_ok)
           /\ LET s == _store_email(rows, email_data, args.processor_type, db_ok) IN
              /\ rows' = s.table
              /\ calls' = Called("store", email_ids[i],
                                 IF s.res.k = "raise" THEN s.res.e
                                 ELSE IF s.res.v THEN "True" ELSE "False")
              /\ IF s.res.k = "raise"
                 THEN /\ pc' = "handler"
                      /\ exc' = Str(s.res.e)
                      /\ UNCHANGED <<i, extracted_count>>
                 ELSE /\ extracted_count' = CountAfterStore(extracted_count, s.res.v)
                      /\ exc' = exc
                      /\ IF s.res.v THEN pc' = "log_success" /\ i' = i ELSE Advance
    /\ UNCHANGED <<inbox, logs, connection, args, email_ids, error_count,
                   email_data, ret, result, runs, fault_budget, start, prev,
                   stepped, last, unclosed>>

\* The "extracted"/"success" entry after a new insert; an exception of the
\* call would be one of the try block.
LogSuccess ==
    /\ pc = "log_success"
    /\ \E db_ok \in BOOLEAN :
           /\ DbAnswers(db_ok)
           /\ db_faults' = DbFaultsAfter(db_ok)
           /\ LET l == _log_processing_activity(logs,
                          EmailProcessingLog("extracted", args.processor_type, "success",
                                             <<"Email stored", email_data.message_id>>,
                                             PyNone),
                          db_ok)
              IN  /\ logs' = l.entries
                  /\ IF l.res.k = "raise"
                     THEN pc' = "handler" /\ exc' = Str(l.res.e) /\ i' = i
                     ELSE Advance /\ exc' = exc
    /\ calls' = Called("log", email_ids[i], "success")
    /\ UNCHANGED <<inbox, rows, connection, args, email_ids, extracted_count,
                   error_count, email_data, ret, result, runs, fault_budget,
                   start, prev, stepped, last, unclosed>>

\* The per-handle `except Exception`: count, log, go on with the next handle;
\* an exception of the log call would leave the loop and the with block.
Handler ==
    /\ pc = "handler"
    /\ error_count' = error_count + 1
    /\ \E db_ok \in BOOLEAN :
           /\ DbAnswers(db_ok)
           /\ db_faults' = DbFaultsAfter(db_ok)
           /\ LET l == _log_processing_activity(logs,
                          EmailProcessingLog("extracted", args.processor_type, "error",
                                             <<"Failed to process email ID", email_ids[i]>>,
                                             exc),
                          db_ok)
              IN  /\ logs' = l.entries
                  /\ IF l.res.k = "raise"
                     THEN pc' = "exit" /\ exc' = Str(l.res.e) /\ i' = i
                     ELSE Advance /\ exc' = PyNone
    /\ calls' = Called("log", email_ids[i], "error")
    /\ UNCHANGED <<inbox, rows, connection, args, email_ids, extracted_count,
                   email_data, ret, result, runs, fault_budget, start, prev,
                   stepped, last, unclosed>>

\* What the call gives its caller when it leaves the with block normally.
Returned(early, count) == IF early # PyNone THEN early ELSE Ok(count)

\* __exit__ runs disconnect(); a pending exception goes on to the batch handler.
Exit ==
    /\ pc = "exit"
    /\ \E close_ok \in BOOLEAN :
           LET d == disconnect(connection, close_ok) IN
           /\ connection' = d.connection
           /\ unclosed' = UnclosedAfter(unclosed, d.net)
    /\ calls' = Called("disconnect", 0, "ok")
    /\ IF exc # PyNone
       THEN pc' = "except" /\ result' = result
       ELSE pc' = "done" /\ result' = Returned(ret, extracted_count)
    /\ UNCHANGED <<inbox, rows, logs, args, email_ids, i, extracted_count,
                   error_count, email_data, exc, ret, runs, db_faults,
                   fault_budget, start, prev, stepped, last>>

\* The batch handler returning instead of raising.
Reraise_Swallowed(e) == Ok(0)

\* The bare `raise` of the batch handler.
Reraise(e) == Raise(e.v)

\* The outer `except Exception`: one "extraction_batch" entry, then re-raise.
Except ==
    /\ pc = "except"
    /\ \E db_ok \in BOOLEAN :
           /\ DbAnswers(db_ok)
           /\ db_faults' = DbFaultsAfter(db_ok)
           /\ LET l == _log_processing_activity(logs,
                          EmailProcessingLog("extraction_batch", args.processor_type,
                                             "error", <<"Batch extraction failed">>, exc),
                          db_ok)
              IN  /\ logs' = l.entries
                  /\ result' = IF l.res.k = "raise" THEN l.res ELSE Reraise(exc)
    /\ calls' = Called("log", 0, "batch")
    /\ pc' = "done"
    /\ UNCHANGED <<inbox, rows, connection, args, email_ids, i, extracted_count,
                   error_count, email_data, exc, ret, runs, fault_budget, start,
                   prev, stepped, last, unclosed>>

\* The caller has the result; the next call may begin.
Return ==
    /\ pc = "done"
    /\ pc' = "idle"
    /\ prev' = [k |-> "run", email_filter |-> TheFilter, result |-> result,
                email_ids |-> email_ids, error_count |-> error_count,
                rows |-> start.rows]
    /\ UNCHANGED <<store, args, email_ids, i, extracted_count, error_count,
                   email_data, exc, ret, result, runs, db_faults, fault_budget,
                   start, calls, stepped, last, unclosed>>

Next ==
    \/ Start
    \/ Enter
    \/ Search
    \/ Fetch
    \/ Store
    \/ LogSuccess
    \/ Handler
    \/ Exit
    \/ Except
    \/ Return

\* Runs of extract_emails, one after the other, against an available database.
Spec == Init /\ [][Next]_vars

\* The same runs against a database whose calls may fail.
InitFaults == InitWith(MaxDbFaults, Mailboxes)
SpecFaults == InitFaults /\ [][Next]_vars

\* --------------------------------- _store_email of concurrent instances
\* Pipeline instances share the store; each call of _store_email is a
\* transaction of its own session: the query, the INSERT at flush(), the
\* commit when the with block is left.

\* The record an instance has fetched for a handle.
FetchedOf(h) == fetch_email(Session, inbox, h, TRUE, Now).v

\* The uncommitted inserts of the other sessions.
PendingOf(others) ==
    {txn[q].pending : q \in {o \in others : txn[o].pending # PyNone}}

\* The INSERT waits while another session holds an uncommitted row that the
\* unique index would set against this one.
Blocked(p, row) ==
    \E other \in PendingOf(Callers \ {p}) : ~UniqueOk(<<other>>, row)

\* The instances that are inside _store_email with the same message_id.
Inside(p, message_id) ==
    {<<q, txn[q].n>> : q \in {o \in Callers \ {p} :
                                  /\ txn[o].pc # "idle"
                                  /\ txn[o].email_data.message_id = message_id}}

\* The call returns (or raises): the session is closed, the outcome noted.
Finish(p, res, at) ==
    /\ txn' = [txn EXCEPT ![p] = [IdleTxn EXCEPT !.n = txn[p].n]]
    /\ done' = Append(done, [caller |-> p, n |-> txn[p].n,
                             email_data |-> txn[p].email_data,
                             saw |-> txn[p].saw, res |-> res, at |-> at])

\* An instance calls _store_email(email_data, processor_type).
StoreCall(p) ==
    /\ txn[p].pc = "idle"
    /\ txn[p].n < MaxCalls
    /\ \E h \in Handles, processor_type \in ProcessorTypes :
           txn' = [txn EXCEPT ![p] =
                      [pc |-> "query", n |-> txn[p].n + 1, email_data |-> FetchedOf(h),
                       processor_type |-> processor_type, pending |-> PyNone,
                       saw |-> Inside(p, FetchedOf(h).message_id)]]
    /\ UNCHANGED <<store, locals, history, done, last, unclosed>>

\* session.query(...).first(), and `return False` when a row is found.
StoreQuery(p) ==
    /\ txn[p].pc = "query"
    /\ IF QueryFirst(rows, txn[p].email_data.message_id) # 0
       THEN Finish(p, Ok(FALSE), "query")
       ELSE /\ txn' = [txn EXCEPT ![p].pc = "flush"]
            /\ done' = done
    /\ UNCHANGED <<store, locals, history, last, unclosed>>

\* session.add(raw_email); session.flush(): the INSERT. A rejected INSERT
\* rolls the session back and arrives at `except IntegrityError`.
StoreFlush(p) ==
    /\ txn[p].pc = "flush"
    /\ LET raw_email == RawEmail(Len(rows) + Cardinality(PendingOf(Callers)) + 1,
                                 txn[p].email_data, txn[p].processor_type) IN
       /\ ~Blocked(p, raw_email)
       /\ IF Flush(rows, raw_email) = "ok"
          THEN /\ txn' = [txn EXCEPT ![p].pc = "commit", ![p].pending = raw_email]
               /\ done' = done
          ELSE Finish(p, OnIntegrityError, "flush")
    /\ UNCHANGED <<store, locals, history, last, unclosed>>

\* `return True` leaves the with block: get_session commits.
StoreCommit(p) ==
    /\ txn[p].pc = "commit"
    /\ rows' = Commit(rows, txn[p].pending)
    /\ Finish(p, Ok(TRUE), "commit")
    /\ UNCHANGED <<inbox, logs, connection, locals, history, last, unclosed>>

NextConc ==
    \E p \in Callers :
        \/ StoreCall(p)
        \/ StoreQuery(p)
        \/ StoreFlush(p)
        \/ StoreCommit(p)

\* Two pipeline instances storing what they fetched, at the same time.
InitConc == InitWith(0, Mailboxes)
SpecConc == InitConc /\ [][NextConc]_vars

\* ------------------------------------------- a client of the connector
\* The messages of the mailboxes a client of the connector meets: those of
\* the pipeline's, one whose "from" is null and which has no receivedDateTime,
\* and one whose receivedDateTime no parser reads.
Unreadable == [k |-> "unreadable"]
ConnectorPool ==
    MessagePool \o << Message(Val(3), Null, Val(<<1>>), Absent),
                      Message(Val(4), Val(<<4>>), Val(<<2, 1>>), Unreadable) >>
ConnectorBoxes ==
    { [h \in Handles |-> ConnectorPool[((first + h - 2) % Len(ConnectorPool)) + 1]] :
        first \in 1..Len(ConnectorPool) }

\* The filters a client searches with.
Dates == {Date(day, 0) : day \in 1..NumHandles} \cup {Date(2, DayTicks - 1)}
DateFilters ==
    {PyNone} \cup {DateEq(d) : d \in Dates} \cup {DateAfter(d) : d \in Dates}
             \cup {DateRange(d, e) : d \in {Date(1, 0), Date(2, DayTicks - 1)},
                                      e \in {Date(2, 0), Date(NumHandles, 0)}}
             \cup {DateOther(Date(1, 0))}
ConnectorFilters ==
    { EmailFilter(sender, subject, date_filter) :
        sender \in {PyNone, Str(<<>>), Str(<<4>>)},
        subject \in {PyNone, Str(<<1>>)},
        date_filter \in DateFilters }

\* A call: its arguments, self.connection before it, its outcome and what it
\* sent to the network.
CallOf(op, arg, res, net) ==
    [op |-> op, arg |-> arg, was |-> connection, res |-> res, net |-> net]

CallConnect ==
    /\ unclosed < MaxUnclosed
    /\ \E env \in ConnectEnvs :
           LET c == connect(connection, env) IN
           /\ connection' = c.connection
           /\ unclosed' = UnclosedAfter(unclosed, c.net)
           /\ last' = CallOf("connect", env, c.res, c.net)
    /\ UNCHANGED <<inbox, rows, logs, locals, history, stepped>>

CallDisconnect ==
    /\ \E close_ok \in BOOLEAN :
           LET d == disconnect(connection, close_ok) IN
           /\ connection' = d.connection
           /\ unclosed' = UnclosedAfter(unclosed, d.net)
           /\ last' = CallOf("disconnect", close_ok, d.res, d.net)
    /\ UNCHANGED <<inbox, rows, logs, locals, history, stepped>>

CallSearch ==
    /\ \E email_filter \in ConnectorFilters, failing_page \in 0..PageSize :
           last' = CallOf("search_emails",
                          [email_filter |-> email_filter, failing_page |-> failing_page],
                          search_emails(connection, inbox, email_filter, failing_page),
                          SearchRequests(connection, inbox, email_filter, failing_page))
    /\ UNCHANGED <<store, locals, history, stepped, unclosed>>

CallFetch ==
    /\ \E email_id \in Handles, http_ok \in BOOLEAN :
           last' = CallOf("fetch_email", [email_id |-> email_id, http_ok |-> http_ok],
                          fetch_email(connection, inbox, email_id, http_ok, Now),
                          FetchRequests(connection, email_id))
    /\ UNCHANGED <<store, locals, history, stepped, unclosed>>

NextConnector == CallConnect \/ CallDisconnect \/ CallSearch \/ CallFetch

InitConnector == InitWith(0, ConnectorBoxes) /\ rows = <<>>
SpecConnector == InitConnector /\ [][NextConnector]_vars

\* ------------------------------------------------------ what a run has done
\* The rows and log entries the running call has added.
NewRows == SubSeq(rows, Len(start.rows) + 1, Len(rows))
NewLogs == SubSeq(logs, Len(start.logs) + 1, Len(logs))

\* The store and the log only grow during a call.
OnlyAdded == /\ Len(start.rows) <= Len(rows)
             /\ SubSeq(rows, 1, Len(start.rows)) = start.rows
             /\ Len(start.logs) <= Len(logs)
             /\ SubSeq(logs, 1, Len(start.logs)) = start.logs

UniqueIds(table) ==
    \A a, b \in DOMAIN table : a # b => table[a].message_id # table[b].message_id

IdPresent(table, message_id) ==
    \E r \in DOMAIN table : table[r].message_id = message_id

\* Entries of a log with the given action and status.
Entries(entries, action, status) ==
    {n \in DOMAIN entries : entries[n].action = action /\ entries[n].status = status}

\* Calls of the running call, by operation (and outcome).
CallsOf(ops) == {c \in DOMAIN calls : calls[c].op \in ops}
FailedCalls(ops) == {c \in CallsOf(ops) : calls[c].out # "ok"}

\* The message_id the mailbox gives the message behind a handle, read off the
\* payload: the internetMessageId, "generated-<handle>" without one, None for a
\* null one.
IdOf(box, h) ==
    LET m == box[h].internetMessageId IN
    IF m = Absent THEN Generated(h) ELSE IF m = Null THEN PyNone ELSE MessageIdOf(m.v)

\* The payload fills every NOT NULL column of raw_emails.
Storable(box, h) == IdOf(box, h) # PyNone /\ box[h].subject # Null

\* The message_ids among the handles ids that a store holding table lacks and
\* can take.
FreshIds(box, ids, table) ==
    { IdOf(box, ids[k]) :
        k \in {n \in DOMAIN ids : /\ Storable(box, ids[n])
                                  /\ ~IdPresent(table, IdOf(box, ids[n]))} }

\* The second of two runs in a row with the same filter has finished, and no
\* fetch failed and nothing was raised in either.
TwoRuns ==
    /\ pc = "done"
    /\ prev.k = "run"
    /\ prev.email_filter = TheFilter
    /\ prev.result.k = "ok" /\ prev.error_count = 0
    /\ result.k = "ok" /\ error_count = 0

\* C1 as stated: the first of the two runs returns the full match count, the
\* second returns 0, and no two rows share a message_id.
C1_FullMatchCount ==
    TwoRuns => /\ prev.result = Ok(Len(prev.email_ids))
               /\ result = Ok(0)
               /\ UniqueIds(rows)

\* C1, amended: the first of the two runs returns the number of distinct
\* message_ids among its matches that the store did not hold and whose record
\* fills the NOT NULL columns; the second returns 0; no two rows share a
\* message_id.
C1_Idempotent ==
    TwoRuns => /\ prev.result = Ok(Cardinality(FreshIds(inbox, prev.email_ids, prev.rows)))
               /\ result = Ok(0)
               /\ UniqueIds(rows)

C1_Witness ==
    /\ TwoRuns
    /\ prev.result.v > 0
    /\ prev.result.v < Len(prev.email_ids)
    /\ result = Ok(0)

\* The record fills the NOT NULL columns of raw_emails.
FillsColumns(record) == record.message_id # PyNone /\ record.subject # PyNone

RowsWith(table, message_id) ==
    {r \in DOMAIN table : table[r].message_id = message_id}

\* C2: no two rows of raw_emails share a message_id, whatever the instances
\* have stored, skipped or had rejected so far.
C2_UniqueMessageId == UniqueIds(rows)

C2_Witness ==
    /\ Len(rows) >= 2
    /\ \E d \in DOMAIN done : /\ done[d].at = "flush"
                              /\ FillsColumns(done[d].email_data)

\* Two finished calls of different instances that were inside _store_email
\* at the same time with the same message_id.
Overlap(a, b) ==
    \/ <<done[b].caller, done[b].n>> \in done[a].saw
    \/ <<done[a].caller, done[a].n>> \in done[b].saw

\* C3 as stated: of two concurrent calls with the same message_id exactly one
\* returns True and the other False, and exactly one row holds that
\* message_id.
C3_ExactlyOneInserted ==
    \A a, b \in DOMAIN done :
        (a # b /\ Overlap(a, b)) =>
            /\ Cardinality(RowsWith(rows, done[a].email_data.message_id)) = 1
            /\ {done[a].res, done[b].res} = {Ok(TRUE), Ok(FALSE)}

\* C3, amended: no call of _store_email raises; of the calls with one
\* message_id, concurrent or not, at most one returns True and the others
\* return False; the store holds at most one row with that message_id, namely
\* the one it held before or the one of the call that returned True; and one
\* call returns True exactly when the store did not hold the message_id and
\* some call brought a record that fills the NOT NULL columns.
C3_AtMostOneInserted ==
    /\ \A d \in DOMAIN done : done[d].res \in {Ok(TRUE), Ok(FALSE)}
    /\ \A m \in {done[d].email_data.message_id : d \in DOMAIN done} :
          LET with_m == {d \in DOMAIN done : done[d].email_data.message_id = m}
              inserted == {d \in with_m : done[d].res = Ok(TRUE)}
          IN  /\ Cardinality(inserted) <= 1
              /\ Cardinality(RowsWith(rows, m)) =
                     Cardinality(RowsWith(start.rows, m)) + Cardinality(inserted)
              /\ Cardinality(RowsWith(rows, m)) <= 1
              /\ inserted # {} <=>
                     /\ RowsWith(start.rows, m) = {}
                     /\ \E d \in with_m : FillsColumns(done[d].email_data)

C3_Witness ==
    \E a, b \in DOMAIN done :
        /\ Overlap(a, b)
        /\ done[a].res = Ok(TRUE)
        /\ done[b].res = Ok(FALSE)
        /\ done[b].at = "flush"
        /\ FillsColumns(done[b].email_data)

\* A run has gone through a batch of handles whose message_ids are distinct,
\* not None and not in the store when the run began.
DistinctNewBatch ==
    /\ pc = "done"
    /\ email_ids # <<>>
    /\ \A a \in DOMAIN email_ids :
          /\ IdOf(inbox, email_ids[a]) # PyNone
          /\ ~IdPresent(start.rows, IdOf(inbox, email_ids[a]))
          /\ \A b \in DOMAIN email_ids :
                a # b => IdOf(inbox, email_ids[a]) # IdOf(inbox, email_ids[b])

\* C4: of such a batch of n handles with k failed fetches the run does not
\* raise, stores the n-k fetched messages, returns n-k and writes k "error"
\* and n-k "success" entries.
C4_PartialFailure ==
    DistinctNewBatch =>
        LET n == Len(email_ids)
            k == Cardinality(FailedCalls({"fetch"}))
        IN  /\ result = Ok(n - k)
            /\ Len(NewRows) = n - k
            /\ \A c \in CallsOf({"fetch"}) \ FailedCalls({"fetch"}) :
                  IdPresent(NewRows, IdOf(inbox, calls[c].arg))
            /\ Cardinality(Entries(NewLogs, "extracted", "error")) = k
            /\ Cardinality(Entries(NewLogs, "extracted", "success")) = n - k

\* C5: once connect has succeeded in a run, disconnect has run and the
\* connector holds no session when the run is back outside the with block
\* (in the batch handler, or finished), however it left the block.
C5_SessionReleased ==
    pc \in {"except", "done", "idle"} =>
        /\ connection = NoSession
        /\ (CallsOf({"connect"}) # FailedCalls({"connect"})
               => CallsOf({"disconnect"}) # {})

C5_Witness ==
    /\ pc = "done"
    /\ CallsOf({"connect"}) # FailedCalls({"connect"})
    /\ CallsOf({"disconnect"}) # {}
    /\ connection = NoSession
    /\ error_count > 0

\* connect or search_emails has raised in the run that has now finished.
BatchFailed == pc = "done" /\ FailedCalls({"connect", "search"}) # {}
BatchError == calls[CHOOSE c \in FailedCalls({"connect", "search"}) : TRUE].out

\* C6: when connect or search_emails raises, the run writes exactly one log
\* entry, "extraction_batch"/"error", makes no fetch and no store call, adds
\* no row, and raises that same exception.
C6_BatchFailure ==
    BatchFailed =>
        /\ NewLogs = << EmailProcessingLog("extraction_batch", args.processor_type,
                                           "error", <<"Batch extraction failed">>,
                                           Str(BatchError)) >>
        /\ CallsOf({"fetch", "store"}) = {}
        /\ rows = start.rows
        /\ result = Raise(BatchError)

C6_Witness ==
    /\ BatchFailed
    /\ FailedCalls({"search"}) # {}
    /\ result = Raise("HTTPError")
    /\ Len(logs) = Len(start.logs) + 1

\* The running call has searched, and the mailbox lists no message for its
\* filter.
EmptyResult ==
    /\ pc \in {"exit", "except", "done"}
    /\ \E c \in CallsOf({"search"}) : Listing(inbox, TheFilter, calls[c].arg) = Ok(<<>>)

\* C7: when search_emails returns no handle, the run raises nothing, makes no
\* fetch, store or log call, leaves store and log as they were, and returns 0.
C7_EmptyResult ==
    EmptyResult =>
        /\ exc = PyNone
        /\ CallsOf({"fetch", "store", "log"}) = {}
        /\ rows = start.rows /\ logs = start.logs
        /\ pc = "done" => result = Ok(0)

C7_Witness ==
    /\ EmptyResult
    /\ pc = "done"
    /\ result = Ok(0)
    /\ args.date_filter # PyNone

\* C8: a store step for a message whose message_id the store already holds
\* leaves every row as it is, leaves the counts and the log as they are, and
\* is followed by the next handle (or the end of the loop), not by the error
\* handler.
C8_DuplicateSkip ==
    [][ (pc = "store" /\ IdPresent(rows, email_data.message_id)) =>
           /\ rows' = rows
           /\ extracted_count' = extracted_count
           /\ error_count' = error_count
           /\ logs' = logs
           /\ exc' = PyNone
           /\ IF i < Len(email_ids) THEN pc' = "fetch" /\ i' = i + 1
              ELSE pc' = "exit" ]_vars

C8_Witness ==
    /\ pc = "fetch"
    /\ calls # <<>>
    /\ calls[Len(calls)].op = "store"
    /\ calls[Len(calls)].out = "False"
    /\ QueryFirst(rows, email_data.message_id) # 0
    /\ rows[QueryFirst(rows, email_data.message_id)].processed

\* C9: the value a run returns is the number of rows it added to the store
\* and the number of "extracted"/"success" entries it added to the log.
C9_ReturnedCount ==
    (pc = "done" /\ result.k = "ok") =>
        /\ OnlyAdded
        /\ result.v = Len(NewRows)
        /\ result.v = Cardinality(Entries(NewLogs, "extracted", "success"))

C9_Witness ==
    /\ pc = "done"
    /\ result = Ok(2)
    /\ error_count = 1
    /\ Len(NewRows) = 2

\* C10: a finished run has added exactly one log entry for every handle the
\* search returned, and has left the earlier entries as they were.
C10_OneEntryPerHandle ==
    (pc = "done" /\ result.k = "ok") =>
        /\ OnlyAdded
        /\ \A n \in DOMAIN email_ids :
              Cardinality({c \in CallsOf({"log"}) : calls[c].arg = email_ids[n]}) = 1
        /\ Len(NewLogs) = Len(email_ids)

\* ------------------------------------------------- calls on the connector
LastIs(op) == last # PyNone /\ last.op = op
Disconnected == connection = NoSession
NotConnected == Raise("ConnectionError")

\* C11: disconnect never raises and leaves the connector disconnected; on a
\* connector that has no session it does nothing at all.
C11_DisconnectSafe ==
    LastIs("disconnect") =>
        /\ last.res = Ok(PyNone)
        /\ Disconnected
        /\ last.was = NoSession => last.net = <<>>

\* A disconnect of a connected connector whose session failed to close.
C11_Witness ==
    /\ LastIs("disconnect")
    /\ last.was = Session
    /\ last.arg = FALSE
    /\ last.net = <<CloseSession>>

\* C12: search_emails and fetch_email on a disconnected connector raise the
\* not-connected error, send nothing to the backend and leave the connector
\* as it was; and a connector is disconnected after a connect that failed
\* and after a disconnect.
C12_NotConnected ==
    /\ ((LastIs("search_emails") \/ LastIs("fetch_email")) /\ last.was = NoSession) =>
          /\ last.res = NotConnected
          /\ last.net = <<>>
          /\ connection = last.was
    /\ (LastIs("connect") /\ last.was = NoSession /\ last.res.k = "raise") => Disconnected
    /\ LastIs("disconnect") => Disconnected

\* A search with a filter on a disconnected connector was refused.
C12_Witness ==
    /\ LastIs("search_emails")
    /\ last.was = NoSession
    /\ last.arg.email_filter.sender # PyNone
    /\ last.res = NotConnected
    /\ Disconnected

\* C13: with EMAIL_USER unset, connect raises the configuration error
\* (ValueError) having acquired no token and sent no request, and the
\* connector stays as it was: disconnected.
C13_ConfigurationFirst ==
    (LastIs("connect") /\ ~Truthy(last.arg.user)) =>
        /\ last.res = Raise("ValueError")
        /\ last.net = <<>>
        /\ connection = last.was
        /\ last.was = NoSession => Disconnected

\* A connect without account name where the token acquisition and the inbox
\* request would both have succeeded.
C13_Witness ==
    /\ LastIs("connect")
    /\ last.arg = [user |-> PyNone, token |-> "ok", health |-> TRUE]
    /\ last.was = NoSession
    /\ last.res = Raise("ValueError")

\* The fields of the payload that fetch_email turns into the record.
Populated(message) ==
    /\ message.internetMessageId.k = "val"
    /\ message.from.k = "val"
    /\ message.subject.k = "val"
    /\ message.receivedDateTime.k = "val"

\* C14: fetch_email returns a record only when the backend answered and the
\* payload holds a message id, a sender, a subject and a readable timestamp;
\* in every other case it raises.
C14_NeverPartial ==
    (LastIs("fetch_email") /\ last.was = Session) =>
        (last.res.k = "ok" <=>
            (last.arg.http_ok /\ Populated(inbox[last.arg.email_id])))

\* C15: a record fetched for handle h from a message whose internetMessageId
\* is missing or null has the message_id "generated-h", and no fetched
\* record has a null message_id.
C15_GeneratedMessageId ==
    (LastIs("fetch_email") /\ last.res.k = "ok") =>
        /\ inbox[last.arg.email_id].internetMessageId.k # "val" =>
              last.res.v.message_id = Generated(last.arg.email_id)
        /\ last.res.v.message_id # PyNone

\* The text "<day>T00:00:00Z", and the day a message was received on.
StartOfDay(day) == [date |-> day, time |-> 0, zone |-> "Z"]
ReceivedOn(message) == message.receivedDateTime.v \div DayTicks

\* The $filter of the first request of the last search, and the handles the
\* backend selects for it.
SentFilter == last.net[1].params.filter
Selected == ServerSelect(inbox, _build_graph_filter(last.arg.email_filter), 1)
Elems(seq) == {seq[n] : n \in DOMAIN seq}
ReceivedWithin(from, to) ==
    {h \in Handles : /\ inbox[h].receivedDateTime.k = "val"
                     /\ ReceivedOn(inbox[h]) >= from
                     /\ ReceivedOn(inbox[h]) <= to}

\* C16: the $filter a search sends is, for Equals(d), "ge d 00:00:00Z and
\* lt d+1 00:00:00Z"; for After(d), "ge d 00:00:00Z" alone; for
\* Range(start, end), "ge start 00:00:00Z and lt end+1 00:00:00Z"; so the
\* backend selects the messages received on d, from d on, and from start to
\* end inclusive.
C16_DateFilter ==
    (LastIs("search_emails") /\ last.was = Session
        /\ last.arg.email_filter.date_filter # PyNone) =>
        LET f == last.arg.email_filter.date_filter IN
        /\ f.operator = "=" =>
              /\ SentFilter = Val(<< [op |-> "ge", t |-> StartOfDay(f.date.day)],
                                     [op |-> "lt", t |-> StartOfDay(f.date.day + 1)] >>)
              /\ Elems(Selected) = ReceivedWithin(f.date.day, f.date.day)
        /\ f.operator = ">" =>
              /\ SentFilter = Val(<< [op |-> "ge", t |-> StartOfDay(f.date.day)] >>)
              /\ Elems(Selected) = ReceivedWithin(f.date.day, NumHandles + 1)
        /\ f.operator = "range" =>
              /\ SentFilter = Val(<< [op |-> "ge", t |-> StartOfDay(f.start_date.day)],
                                     [op |-> "lt", t |-> StartOfDay(f.end_date.day + 1)] >>)
              /\ Elems(Selected) = ReceivedWithin(f.start_date.day, f.end_date.day)

\* A search for the range from a datetime inside day 2 to day 2 returned a
\* message received at the start of that day and one received later that day.
C16_Witness ==
    /\ LastIs("search_emails")
    /\ last.was = Session
    /\ last.arg.email_filter =
          EmailFilter(PyNone, PyNone, DateRange(Date(2, DayTicks - 1), Date(2, 0)))
    /\ last.res.k = "ok"
    /\ \E h \in Elems(last.res.v) : inbox[h].receivedDateTime.v = Midnight(2)
    /\ \E h \in Elems(last.res.v) : inbox[h].receivedDateTime.v = Midnight(2) + 1

\* The text tests of a search: a test is made only for a field of the filter
\* that is set; a message without the field does not pass it.
HasText(field, text) == field.k = "val" /\ Contains(lower(text), lower(field.v))
PassesText(message, email_filter) ==
    /\ Truthy(email_filter.sender) => HasText(message.from, email_filter.sender.v)
    /\ Truthy(email_filter.subject) => HasText(message.subject, email_filter.subject.v)
PassingOf(listing, email_filter) ==
    LET Test(h) == PassesText(inbox[h], email_filter) IN SelectSeq(listing, Test)

\* C17: a search whose requests the backend all answers asks for every page
\* of the listing, sends no criterion but the date's, and returns the handles
\* of the listing that pass the sender and subject tests, in the listing's
\* order: an empty list when none does.
C17_SearchResult ==
    (LastIs("search_emails") /\ last.was = Session /\ last.arg.failing_page = 0) =>
        /\ last.res = Ok(PassingOf(Selected, last.arg.email_filter))
        /\ Len(last.net) = Len(Pages(Selected))
        /\ \A n \in DOMAIN last.net :
              /\ last.net[n].op = "GET"
              /\ n > 1 => last.net[n].params = NoParams
        /\ SentFilter # Absent =>
              \A n \in DOMAIN SentFilter.v : SentFilter.v[n].op \in {"ge", "lt"}

\* C18: for a filter without sender, subject and date, _build_graph_filter
\* gives None, the search request carries no $filter, and a search the
\* backend answers returns every handle of the mailbox, page after page.
C18_MatchEverything ==
    (LastIs("search_emails") /\ last.was = Session
        /\ ~Truthy(last.arg.email_filter.sender)
        /\ ~Truthy(last.arg.email_filter.subject)
        /\ last.arg.email_filter.date_filter = PyNone) =>
        /\ _build_graph_filter(last.arg.email_filter) = PyNone
        /\ \A n \in DOMAIN last.net : last.net[n].params.filter = Absent
        /\ last.arg.failing_page = 0 =>
              /\ last.res = Ok([h \in Handles |-> h])
              /\ Len(last.net) = Len(Pages([h \in Handles |-> h]))

\* A search with the empty filter in a mailbox that holds a message with a
\* null "from" returned all handles, from more than one page.
C18_Witness ==
    /\ LastIs("search_emails")
    /\ last.was = Session
    /\ last.arg.email_filter = EmailFilter(PyNone, PyNone, PyNone)
    /\ \E h \in Handles : inbox[h].from = Null
    /\ last.res = Ok([h \in Handles |-> h])
    /\ Len(last.net) > 1

\* ------------------------------------------------------------ runs, again
\* A run has finished without a failure, after a run with the same filter in
\* which a handle failed or which was aborted.
Retry ==
    /\ pc = "done"
    /\ prev.k = "run"
    /\ prev.email_filter = TheFilter
    /\ prev.result.k = "raise" \/ prev.error_count > 0
    /\ result.k = "ok" /\ error_count = 0

\* The messages (by message_id) among the matches of the run that the store
\* did not hold when the run began.
NotYetStored ==
    { IdOf(inbox, email_ids[n]) :
        n \in {k \in DOMAIN email_ids : ~IdPresent(start.rows, IdOf(inbox, email_ids[k]))} }

\* C19: the retry returns the number of matching messages that were not yet
\* stored, has stored each of them once, and has left the rows of the store
\* as they were, with no message_id twice.
C19_RetrySafe ==
    Retry =>
        /\ result = Ok(Cardinality(NotYetStored))
        /\ \A id \in NotYetStored : Cardinality(RowsWith(rows, id)) = 1
        /\ SubSeq(rows, 1, Len(start.rows)) = start.rows
        /\ UniqueIds(rows)

\* The position in calls of the k-th fetch of the running call.
Fetches == CallsOf({"fetch"})
FetchAt(k) == CHOOSE c \in Fetches : Cardinality({d \in Fetches : d <= c}) = k
\* The store and log calls made for a handle.
PerHandle == {c \in CallsOf({"store", "log"}) : calls[c].out # "batch"}

\* C20: a run makes one connect, then one search, then a fetch per handle, in
\* the order of the search result and once per handle; the store and the log
\* write of a handle come after its fetch and before the next fetch; when the
\* run has returned every handle has been fetched.
C20_Sequential ==
    /\ pc \notin {"idle", "enter"} =>
          /\ CallsOf({"connect"}) = {1}
          /\ CallsOf({"search"}) \subseteq {2}
    /\ Fetches # {} => calls[2] = [op |-> "search", arg |-> 0, out |-> "ok"]
    /\ Cardinality(Fetches) <= Len(email_ids)
    /\ \A k \in 1..Cardinality(Fetches) : calls[FetchAt(k)].arg = email_ids[k]
    /\ \A c \in PerHandle :
          /\ \E f \in Fetches : f < c
          /\ LET f == CHOOSE f \in Fetches :
                          f < c /\ \A g \in Fetches : g < c => g <= f
             IN  calls[f].arg = calls[c].arg
    /\ (pc = "done" /\ result.k = "ok") => Cardinality(Fetches) = Len(email_ids)

\* A run has returned after a fetch that failed, a store that raised and a
\* store that inserted a row.
C20_Witness ==
    /\ pc = "done"
    /\ result = Ok(1)
    /\ Len(email_ids) = NumHandles
    /\ \E c \in Fetches : calls[c].out # "ok" /\ calls[c].arg = email_ids[1]
    /\ \E c \in CallsOf({"store"}) : calls[c].out \notin {"True", "False"}
    /\ \E c \in CallsOf({"log"}) : calls[c].out = "success"

\* ------------------------------------------------------ the store, again
\* C21: no step of a run removes a row or changes a field of a row the store
\* holds; a row a step adds has processed = False and the processor_type of
\* the running call.
C21_OnlyAddsRows ==
    [][ /\ Len(rows') >= Len(rows)
        /\ SubSeq(rows', 1, Len(rows)) = rows
        /\ \A r \in (Len(rows) + 1)..Len(rows') :
              /\ rows'[r].processed = FALSE
              /\ rows'[r].processor_type = args.processor_type ]_vars

\* The second run, under another profile, has met a row the first run stored
\* and has left it with the first profile.
C21_Witness ==
    /\ runs = 2
    /\ calls # <<>>
    /\ calls[Len(calls)].op = "store"
    /\ calls[Len(calls)].out = "False"
    /\ QueryFirst(rows, email_data.message_id) > Len(prev.rows)
    /\ rows[QueryFirst(rows, email_data.message_id)].processor_type # args.processor_type
    /\ ~rows[QueryFirst(rows, email_data.message_id)].processed

\* C22: when _store_email has returned False the store holds a row with the
\* message_id of the record; and when a run has returned, every handle whose
\* message the store does not hold has an "error" entry.
C22_FalseMeansStored ==
    /\ (calls # <<>> /\ calls[Len(calls)].op = "store" /\ calls[Len(calls)].out = "False") =>
          IdPresent(rows, email_data.message_id)
    /\ (pc = "done" /\ result.k = "ok") =>
          \A n \in DOMAIN email_ids :
              ~IdPresent(rows, IdOf(inbox, email_ids[n])) =>
                  \E c \in CallsOf({"log"}) :
                      calls[c].arg = email_ids[n] /\ calls[c].out = "error"

\* ------------------------------------------------------- the log, again
\* The step is a log write that the database refused.
LogWriteFailed ==
    /\ pc \in {"log_success", "handler", "except"}
    /\ db_faults' = db_faults + 1

\* C23: a log write that fails adds no entry and changes nothing else: the
\* rows and the success count stay, the handle of a stored message does not
\* become an error, the loop goes on with the next handle (or ends without an
\* exception), and the batch handler raises the exception it was handling.
C23_LogFailureSwallowed ==
    [][ LogWriteFailed =>
          /\ logs' = logs
          /\ rows' = rows
          /\ extracted_count' = extracted_count
          /\ pc = "log_success" => error_count' = error_count
          /\ pc = "handler" => error_count' = error_count + 1
          /\ pc \in {"log_success", "handler"} =>
                /\ exc' = PyNone
                /\ IF i < Len(email_ids) THEN pc' = "fetch" /\ i' = i + 1
                                         ELSE pc' = "exit"
          /\ pc = "except" => result' = Raise(exc.v) ]_vars

\* A run has returned 1 for the row it stored although the "success" entry
\* of that row could not be written.
C23_Witness ==
    /\ pc = "done"
    /\ result = Ok(1)
    /\ error_count = 0
    /\ Len(NewRows) = 1
    /\ db_faults = 1
    /\ \E c \in CallsOf({"log"}) : calls[c].out = "success"
    /\ NewLogs = <<>>

\* ------------------------------------------------------------- sessions
\* C24: when disconnect has returned, close() has been called on every
\* session connect created, and there is never more than one session that
\* has not been closed.
C24_NoSessionLeaked ==
    /\ LastIs("disconnect") => unclosed = 0
    /\ unclosed <= 1

\* What made a connect fail, if anything did.
ConnectFails(env) == ~Truthy(env.user) \/ env.token # "ok" \/ ~env.health

\* C25: a connect that meets a missing account name, a failing token
\* acquisition or a failing inbox request raises and leaves self.connection
\* as it was, so that a fresh connector still refuses search_emails and
\* fetch_email; a connect that meets none of them returns with a session.
C25_PublishedAfterSmokeTest ==
    LastIs("connect") =>
        /\ ConnectFails(last.arg) =>
              /\ last.res.k = "raise"
              /\ connection = last.was
              /\ last.was = NoSession =>
                    /\ \A f \in ConnectorFilters :
                          search_emails(connection, inbox, f, 0) = NotConnected
                    /\ \A h \in Handles :
                          fetch_email(connection, inbox, h, TRUE, Now) = NotConnected
        /\ ~ConnectFails(last.arg) => last.res = Ok(PyNone) /\ connection = Session

\* A connect of a fresh connector whose inbox request failed after the token
\* was acquired and the session created.
C25_Witness ==
    /\ LastIs("connect")
    /\ last.was = NoSession
    /\ last.arg.health = FALSE
    /\ last.res = Raise("HTTPError")
    /\ NewSession \in Elems(last.net)
    /\ Disconnected

\* C26: a date_filter with an operator other than "=", ">" and "range" gives
\* the date range (None, None); the search sends no $filter, the backend
\* lists the whole mailbox, and the search ends as it does without the
\* date_filter.
C26_UnknownOperator ==
    (LastIs("search_emails") /\ last.was = Session
        /\ last.arg.email_filter.date_filter # PyNone
        /\ last.arg.email_filter.date_filter.operator \notin {"=", ">", "range"}) =>
        LET f == last.arg.email_filter IN
        /\ _build_date_range(f) = <<PyNone, PyNone>>
        /\ \A n \in DOMAIN last.net : last.net[n].params.filter = Absent
        /\ Selected = [h \in Handles |-> h]
        /\ last.res = search_emails(Session, inbox,
                                    EmailFilter(f.sender, f.subject, PyNone),
                                    last.arg.failing_page)
        /\ last.res.k = "raise" =>
              \/ last.arg.failing_page \in 1..Len(Pages(Selected))
              \/ Truthy(f.sender) /\ \E h \in Handles : inbox[h].from = Null

\* A search with the operator "<" and a date before every message returned
\* every handle.
C26_Witness ==
    /\ LastIs("search_emails")
    /\ last.was = Session
    /\ last.arg.email_filter = EmailFilter(PyNone, PyNone, DateOther(Date(1, 0)))
    /\ last.res = Ok([h \in Handles |-> h])

====
